---- MODULE Spec2Model ----
(***************************************************************************)
(* Model of src/src/data_processing.py: the sales pipeline                 *)
(*   clean_data -> validate_data -> transform_data -> publish_data.        *)
(*                                                                         *)
(* A Python str is a sequence of characters; a character is a one-element  *)
(* TLA+ string, except "sup2", which stands for the single character       *)
(* U+00B2 (SUPERSCRIPT TWO): str.isdigit() is true of it, int() and        *)
(* float() reject it.  A Python value carries its type, so that the str    *)
(* '1' and the int 1 are different values, as they are for ==, in and      *)
(* hash().                                                                 *)
(***************************************************************************)
EXTENDS Integers, Sequences, FiniteSets, TLC

VARIABLES pc, data, id_fields, cleaned_data, final_cleaned_data,
          validated_data, log, exc,
          product_dim, retailer_dim, date_dim, sales_fact,
          conn, txn, executed, store, store_before, run, store_after_first,
          price_in, price_out

vars == <<pc, data, id_fields, cleaned_data, final_cleaned_data,
          validated_data, log, exc,
          product_dim, retailer_dim, date_dim, sales_fact,
          conn, txn, executed, store, store_before, run, store_after_first,
          price_in, price_out>>

\* Bounds of the model.
MaxRows == 3
MaxCleanRows == 2
MaxLen == 3

(***************************************************************************)
(* Python values                                                           *)
(***************************************************************************)
PyStr(s) == [str |-> s]
PyInt(n) == [int |-> n]
\* A float that a short decimal literal denotes: mantissa m and e decimal
\* places, with trailing zero places removed (1.50 = 1.5).
PyFloat(m, e) == [float |-> <<m, e>>]
PyNone == [none |-> <<>>]
\* An exception of class kind leaving the call in place of a value
Raised(kind) == [raise |-> kind]
IsRaised(x) == DOMAIN x = {"raise"}
\* type(x)
TypeOf(x) == CHOOSE k \in DOMAIN x : TRUE

\* bool(x)
Truthy(x) ==
  CASE TypeOf(x) = "str" -> x.str # <<>>
    [] TypeOf(x) = "int" -> x.int # 0
    [] TypeOf(x) = "float" -> x.float[1] # 0
    [] OTHER -> FALSE

\* x = e; F(x): e is computed once and bound to the name F uses.
Bind(e, F(_)) == CHOOSE r \in {F(x) : x \in {e}} : TRUE

(***************************************************************************)
(* str methods and the int() / float() constructors                        *)
(***************************************************************************)
DecimalChars == {"0", "1", "2", "3", "4", "5", "6", "7", "8", "9"}

DigitVal(c) ==
  CASE c = "0" -> 0 [] c = "1" -> 1 [] c = "2" -> 2 [] c = "3" -> 3
    [] c = "4" -> 4 [] c = "5" -> 5 [] c = "6" -> 6 [] c = "7" -> 7
    [] c = "8" -> 8 [] c = "9" -> 9

\* c.isdigit() for one character
CharIsDigit(c) == c \in DecimalChars \cup {"sup2"}

\* s.isdigit(): at least one character and every character a digit
isdigit(s) == s # <<>> /\ \A i \in 1..Len(s) : CharIsDigit(s[i])

IsDecimalString(s) == s # <<>> /\ \A i \in 1..Len(s) : s[i] \in DecimalChars

RECURSIVE LStrip(_)
LStrip(s) == IF s # <<>> /\ Head(s) = " " THEN LStrip(Tail(s)) ELSE s

RECURSIVE RStrip(_)
RStrip(s) ==
  IF s # <<>> /\ s[Len(s)] = " " THEN RStrip(SubSeq(s, 1, Len(s) - 1)) ELSE s

\* s.strip()
Strip(s) == RStrip(LStrip(s))

RECURSIVE DecVal(_)
DecVal(s) ==
  IF s = <<>> THEN 0 ELSE DecVal(SubSeq(s, 1, Len(s) - 1)) * 10 + DigitVal(s[Len(s)])

\* int(s) for a str: surrounding whitespace, an optional sign, decimal digits
IntOfStr(s) ==
  LET b == Strip(s)
      signed == b # <<>> /\ Head(b) \in {"+", "-"}
      d == IF signed THEN Tail(b) ELSE b
  IN IF IsDecimalString(d)
       THEN PyInt(IF signed /\ Head(b) = "-" THEN 0 - DecVal(d) ELSE DecVal(d))
       ELSE Raised("ValueError")

\* int(x): a str is parsed, an int is returned as it is
PyIntOf(x) == IF TypeOf(x) = "int" THEN x ELSE IntOfStr(x.str)

RECURSIVE Normalise(_, _)
Normalise(m, e) ==
  IF e > 0 /\ m % 10 = 0 THEN Normalise(m \div 10, e - 1) ELSE PyFloat(m, e)

Dots(s) == {i \in 1..Len(s) : s[i] = "."}

\* float(s) for a str made of digits and '.': digits with at most one point
FloatOfStr(s) ==
  LET digits == SelectSeq(s, LAMBDA c : c # ".")
  IN IF /\ \A i \in 1..Len(s) : s[i] \in DecimalChars \cup {"."}
        /\ Cardinality(Dots(s)) <= 1
        /\ digits # <<>>
       THEN Normalise(DecVal(digits),
                      IF Dots(s) = {} THEN 0 ELSE Len(s) - (CHOOSE i \in Dots(s) : TRUE))
       ELSE Raised("ValueError")

\* s.replace('/', '-')
ReplaceSlash(s) == [i \in 1..Len(s) |-> IF s[i] = "/" THEN "-" ELSE s[i]]

RECURSIVE SplitFrom(_, _, _)
SplitFrom(s, i, cur) ==
  IF i > Len(s) THEN <<cur>>
  ELSE IF s[i] = "-" THEN <<cur>> \o SplitFrom(s, i + 1, <<>>)
  ELSE SplitFrom(s, i + 1, Append(cur, s[i]))

\* s.split('-')
SplitDash(s) == SplitFrom(s, 1, <<>>)

(***************************************************************************)
(* The field cleaners                                                      *)
(***************************************************************************)
clean_location(value) == IF value = <<>> THEN PyNone ELSE PyStr(value)

clean_price(value) ==
  LET cleaned_value == SelectSeq(value, LAMBDA c : CharIsDigit(c) \/ c = ".")
  IN IF cleaned_value # <<>> THEN FloatOfStr(cleaned_value) ELSE PyFloat(0, 0)

clean_date(value) ==
  IF \E i \in 1..Len(value) : value[i] = "/" THEN PyStr(ReplaceSlash(value)) ELSE PyStr(value)

clean_quantity(value) ==
  LET n == IntOfStr(value)
  IN IF IsRaised(n) THEN PyInt(0) ELSE IF n.int >= 0 THEN n ELSE PyInt(0)

clean_value(key, value) ==
  IF key = "Location" THEN clean_location(value)
  ELSE IF key = "Price" THEN clean_price(value)
  ELSE IF key = "Date" THEN clean_date(value)
  ELSE IF key = "Quantity" THEN clean_quantity(value)
  ELSE PyStr(value)

(***************************************************************************)
(* clean_data                                                              *)
(***************************************************************************)
DefaultIdFields == <<"ProductID", "SaleID", "RetailerID">>

\* The two conditions of the identifier loop, for one field of one row.
FieldMissing(row, field) == field \notin DOMAIN row \/ row[field] = <<>>
FieldInvalid(row, field) == ~isdigit(row[field])
FieldFails(row, field) == FieldMissing(row, field) \/ FieldInvalid(row, field)

\* valid_row at the end of the identifier loop
valid_row(row, ids) == \A i \in 1..Len(ids) : ~FieldFails(row, ids[i])

\* The warning logged for an excluded row: the first failing field, in the
\* order of id_fields, and which of the two conditions it failed.
Exclusion(row, ids) ==
  LET i == CHOOSE j \in 1..Len(ids) :
             FieldFails(row, ids[j]) /\ \A k \in 1..(j - 1) : ~FieldFails(row, ids[k])
  IN [row |-> row, field |-> ids[i],
      reason |-> IF FieldMissing(row, ids[i]) THEN "missing field" ELSE "invalid"]

RECURSIVE Exclusions(_, _)
Exclusions(rows, ids) ==
  IF rows = <<>> THEN <<>>
  ELSE (IF valid_row(Head(rows), ids) THEN <<>> ELSE <<Exclusion(Head(rows), ids)>>)
       \o Exclusions(Tail(rows), ids)

cleaned_strip_row(row) == [key \in DOMAIN row |-> Strip(row[key])]

cleaned_clean_value_row(row) ==
  [key \in DOMAIN row |-> clean_value(key, cleaned_strip_row(row)[key])]

\* clean_value raised for some field of the row
RowRaises(row) == \E key \in DOMAIN row : IsRaised(cleaned_clean_value_row(row)[key])

\* The second loop with the identifier taken from the row as read, before
\* it is stripped and cleaned.
RECURSIVE DedupFromRaw(_, _, _)
DedupFromRaw(rows, i, acc) ==
  IF i > Len(rows) THEN acc
  ELSE IF RowRaises(rows[i]) THEN [acc EXCEPT !.raised = TRUE]
  ELSE IF rows[i] \notin acc.seen
    THEN Bind([acc EXCEPT !.seen = @ \cup {rows[i]},
                          !.final = Append(@, cleaned_clean_value_row(rows[i]))],
              LAMBDA next : DedupFromRaw(rows, i + 1, next))
    ELSE DedupFromRaw(rows, i + 1, acc)

\* The second loop of clean_data from row i on; acc holds seen and
\* final_cleaned_data.  tuple(sorted(row.items())) identifies a dict by its
\* items, as equality of functions does.
RECURSIVE DedupFrom(_, _, _)
DedupFrom(rows, i, acc) ==
  IF i > Len(rows) THEN acc
  ELSE IF RowRaises(rows[i]) THEN [acc EXCEPT !.raised = TRUE]
  ELSE Bind(cleaned_clean_value_row(rows[i]), LAMBDA identifier :
         IF identifier \notin acc.seen
           THEN Bind([acc EXCEPT !.seen = @ \cup {identifier},
                                 !.final = Append(@, identifier)],
                     LAMBDA next : DedupFrom(rows, i + 1, next))
           ELSE DedupFrom(rows, i + 1, acc))

clean_data(d, ids) ==
  Bind(SelectSeq(d, LAMBDA row : valid_row(row, ids)), LAMBDA gated :
    Bind(DedupFrom(gated, 1, [raised |-> FALSE, seen |-> {}, final |-> <<>>]), LAMBDA r :
      [raised |-> r.raised, cleaned_data |-> gated,
       final |-> IF r.raised THEN <<>> ELSE r.final,
       log |-> Exclusions(d, ids)]))

(***************************************************************************)
(* validate_data                                                           *)
(***************************************************************************)
ValidateFields == <<"ProductID", "SaleID", "RetailerID">>

ValidateFails(row, field) == field \notin DOMAIN row \/ ~Truthy(row[field])

validate_ok(row) == \A i \in 1..Len(ValidateFields) : ~ValidateFails(row, ValidateFields[i])

ValidateExclusion(row) ==
  LET i == CHOOSE j \in 1..Len(ValidateFields) :
             /\ ValidateFails(row, ValidateFields[j])
             /\ \A k \in 1..(j - 1) : ~ValidateFails(row, ValidateFields[k])
  IN [row |-> row, field |-> ValidateFields[i], reason |-> "missing field"]

RECURSIVE ValidateExclusions(_)
ValidateExclusions(rows) ==
  IF rows = <<>> THEN <<>>
  ELSE (IF validate_ok(Head(rows)) THEN <<>> ELSE <<ValidateExclusion(Head(rows))>>)
       \o ValidateExclusions(Tail(rows))

validate_data(d) == SelectSeq(d, validate_ok)

(***************************************************************************)
(* Calendar: datetime.strptime(s, '%Y-%m-%d'), strftime('%A'),             *)
(* isocalendar()[1]                                                        *)
(***************************************************************************)
IsLeap(y) == y % 4 = 0 /\ (y % 100 # 0 \/ y % 400 = 0)

DaysInMonth(y, m) ==
  IF m = 2 THEN (IF IsLeap(y) THEN 29 ELSE 28)
  ELSE IF m \in {4, 6, 9, 11} THEN 30 ELSE 31

RECURSIVE DaysBeforeMonth(_, _)
DaysBeforeMonth(y, m) ==
  IF m <= 1 THEN 0 ELSE DaysBeforeMonth(y, m - 1) + DaysInMonth(y, m - 1)

\* date.toordinal(): 1 for 0001-01-01
Ordinal(y, m, d) ==
  (y - 1) * 365 + (y - 1) \div 4 - (y - 1) \div 100 + (y - 1) \div 400
  + DaysBeforeMonth(y, m) + d

WeekdayNames ==
  <<<<"M", "o", "n", "d", "a", "y">>,
    <<"T", "u", "e", "s", "d", "a", "y">>,
    <<"W", "e", "d", "n", "e", "s", "d", "a", "y">>,
    <<"T", "h", "u", "r", "s", "d", "a", "y">>,
    <<"F", "r", "i", "d", "a", "y">>,
    <<"S", "a", "t", "u", "r", "d", "a", "y">>,
    <<"S", "u", "n", "d", "a", "y">>>>

\* strftime('%A')
DayName(y, m, d) == WeekdayNames[((Ordinal(y, m, d) + 6) % 7) + 1]

\* The ordinal of the Monday that starts ISO week 1 of year y
IsoWeek1Monday(y) ==
  LET firstday == Ordinal(y, 1, 1)
      firstweekday == (firstday + 6) % 7
  IN IF firstweekday > 3 THEN firstday - firstweekday + 7 ELSE firstday - firstweekday

\* isocalendar()[1]
IsoWeek(y, m, d) ==
  LET today == Ordinal(y, m, d)
      week == (today - IsoWeek1Monday(y)) \div 7
  IN IF week < 0 THEN (today - IsoWeek1Monday(y - 1)) \div 7 + 1
     ELSE IF week >= 52 /\ today >= IsoWeek1Monday(y + 1) THEN 1
     ELSE week + 1

\* The month and day directives of strptime: one or two digits, in range
\* (the day directive also takes a space and one digit).
MonthDirective(p) ==
  /\ Len(p) \in {1, 2}
  /\ IsDecimalString(p)
  /\ DecVal(p) \in 1..12

DayDirective(p) ==
  \/ /\ Len(p) \in {1, 2}
     /\ IsDecimalString(p)
     /\ DecVal(p) \in 1..31
  \/ /\ Len(p) = 2
     /\ p[1] = " "
     /\ p[2] \in DecimalChars \ {"0"}

\* datetime.strptime(s, '%Y-%m-%d') returns (does not raise ValueError)
StrptimeOK(s) ==
  LET parts == SplitDash(s)
  IN /\ Len(parts) = 3
     /\ Len(parts[1]) = 4
     /\ IsDecimalString(parts[1])
     /\ MonthDirective(parts[2])
     /\ DayDirective(parts[3])
     /\ DecVal(parts[1]) >= 1
     /\ DecVal(Strip(parts[3])) <= DaysInMonth(DecVal(parts[1]), DecVal(parts[2]))

\* A quarter numbered from 0
QuarterFromZero(month) == (month - 1) \div 3

\* quarter = (month - 1) // 3 + 1
Quarter(month) == (month - 1) \div 3 + 1

\* The body of the date block for a date not yet in date_dim: the record
\* it builds and whether the truthiness gate lets it be appended, or the
\* exception it raises.
DateBlock(date) ==
  LET date_parts == SplitDash(date.str)
      year == IntOfStr(date_parts[1])
      month == IntOfStr(date_parts[2])
      day == IntOfStr(date_parts[3])
  IN IF IsRaised(year) THEN Raised("ValueError")
     ELSE IF Len(date_parts) < 2 THEN Raised("IndexError")
     ELSE IF IsRaised(month) THEN Raised("ValueError")
     ELSE IF Len(date_parts) < 3 THEN Raised("IndexError")
     ELSE IF IsRaised(day) THEN Raised("ValueError")
     ELSE IF ~StrptimeOK(date.str) THEN Raised("ValueError")
     ELSE LET quarter == Quarter(month.int)
              day_of_week == DayName(year.int, month.int, day.int)
              week_of_year == IsoWeek(year.int, month.int, day.int)
          IN [emit |-> /\ year.int # 0 /\ month.int # 0 /\ day.int # 0 /\ quarter # 0
                       /\ day_of_week # <<>> /\ week_of_year # 0,
              rec |-> [Date |-> date, Day |-> day, Month |-> month, Year |-> year,
                       Quarter |-> PyInt(quarter), DayOfWeek |-> PyStr(day_of_week),
                       WeekOfYear |-> PyInt(week_of_year)]]

(***************************************************************************)
(* transform_data                                                          *)
(***************************************************************************)
\* x if x else None
OrNone(x) == IF Truthy(x) THEN x ELSE PyNone

\* value not in [r[key] for r in dim]
NotInColumn(value, dim, key) == \A i \in 1..Len(dim) : dim[i][key] # value

EmptyTables == [raised |-> "", product_dim |-> <<>>, retailer_dim |-> <<>>,
                date_dim |-> <<>>, sales_fact |-> <<>>]

ProductBlock(acc, row) ==
  IF NotInColumn(row["ProductID"], acc.product_dim, "ProductID") /\ Truthy(row["ProductName"])
    THEN LET id == PyIntOf(row["ProductID"])
         IN IF IsRaised(id) THEN [acc EXCEPT !.raised = id.raise]
            ELSE [acc EXCEPT !.product_dim =
                    Append(@, [ProductID |-> id, Name |-> row["ProductName"],
                               Brand |-> OrNone(row["Brand"]),
                               Category |-> OrNone(row["Category"])])]
    ELSE acc

RetailerBlock(acc, row) ==
  IF NotInColumn(row["RetailerID"], acc.retailer_dim, "RetailerID") /\ Truthy(row["RetailerName"])
    THEN LET id == PyIntOf(row["RetailerID"])
         IN IF IsRaised(id) THEN [acc EXCEPT !.raised = id.raise]
            ELSE [acc EXCEPT !.retailer_dim =
                    Append(@, [RetailerID |-> id, Name |-> row["RetailerName"],
                               Channel |-> OrNone(row["Channel"]),
                               Location |-> OrNone(row["Location"])])]
    ELSE acc

\* The date block with a date that does not parse skipped
DateDimBlockSkip(acc, row) ==
  IF NotInColumn(row["Date"], acc.date_dim, "Date")
    THEN LET r == DateBlock(row["Date"])
         IN IF IsRaised(r) THEN acc
            ELSE IF r.emit THEN [acc EXCEPT !.date_dim = Append(@, r.rec)]
            ELSE acc
    ELSE acc

DateDimBlock(acc, row) ==
  IF NotInColumn(row["Date"], acc.date_dim, "Date")
    THEN LET r == DateBlock(row["Date"])
         IN IF IsRaised(r) THEN [acc EXCEPT !.raised = r.raise]
            ELSE IF r.emit THEN [acc EXCEPT !.date_dim = Append(@, r.rec)]
            ELSE acc
    ELSE acc

SalesBlock(acc, row) ==
  IF NotInColumn(row["SaleID"], acc.sales_fact, "SaleID")
    THEN LET sid == PyIntOf(row["SaleID"])
             pid == PyIntOf(row["ProductID"])
             rid == PyIntOf(row["RetailerID"])
             qty == PyIntOf(row["Quantity"])
         IN IF IsRaised(sid) THEN [acc EXCEPT !.raised = sid.raise]
            ELSE IF IsRaised(pid) THEN [acc EXCEPT !.raised = pid.raise]
            ELSE IF IsRaised(rid) THEN [acc EXCEPT !.raised = rid.raise]
            ELSE IF IsRaised(qty) THEN [acc EXCEPT !.raised = qty.raise]
            ELSE [acc EXCEPT !.sales_fact =
                    Append(@, [SaleID |-> sid, ProductID |-> pid, RetailerID |-> rid,
                               Date |-> row["Date"], Quantity |-> qty,
                               Price |-> row["Price"]])]
    ELSE acc

\* One iteration of the loop: the four blocks in order, stopping at the
\* first that raises.
RowBlocks(acc, row) ==
  Bind(ProductBlock(acc, row), LAMBDA a1 :
    Bind(IF a1.raised # "" THEN a1 ELSE RetailerBlock(a1, row), LAMBDA a2 :
      Bind(IF a2.raised # "" THEN a2 ELSE DateDimBlock(a2, row), LAMBDA a3 :
        IF a3.raised # "" THEN a3 ELSE SalesBlock(a3, row))))

RECURSIVE TransformFrom(_, _, _)
TransformFrom(rows, i, acc) ==
  IF i > Len(rows) \/ acc.raised # "" THEN acc
  ELSE Bind(RowBlocks(acc, rows[i]), LAMBDA next : TransformFrom(rows, i + 1, next))

\* The tables returned, or, with raised set, the exception that left the
\* function and no tables.
transform_data(rows) ==
  Bind(TransformFrom(rows, 1, EmptyTables), LAMBDA r :
    IF r.raised # "" THEN [EmptyTables EXCEPT !.raised = r.raised] ELSE r)

(***************************************************************************)
(* publish_data: the store holds, per table, the committed row of each     *)
(* key; txn is what the open transaction has written and not committed.    *)
(***************************************************************************)
EmptyStore == [product_dim |-> <<>>, retailer_dim |-> <<>>,
               date_dim |-> <<>>, sales_fact |-> <<>>]

Statement(table, key, row) == [table |-> table, key |-> key, row |-> row]

\* The INSERT statements of one call, in the order of the four loops.
Statements(p, r, d, s) ==
  [i \in 1..Len(p) |-> Statement("product_dim", "ProductID", p[i])]
  \o [i \in 1..Len(r) |-> Statement("retailer_dim", "RetailerID", r[i])]
  \o [i \in 1..Len(d) |-> Statement("date_dim", "Date", d[i])]
  \o [i \in 1..Len(s) |-> Statement("sales_fact", "SaleID", s[i])]

\* ON CONFLICT with Quantity = Quantity + EXCLUDED.Quantity
OnConflictAdd(old, row) ==
  [c \in DOMAIN old \cup DOMAIN row |->
     IF c \notin DOMAIN row THEN old[c]
     ELSE IF c = "Quantity" /\ c \in DOMAIN old THEN PyInt(old[c].int + row[c].int)
     ELSE row[c]]

\* ON CONFLICT (key) DO UPDATE SET c = EXCLUDED.c for every column c of row
OnConflict(old, row) ==
  [c \in DOMAIN old \cup DOMAIN row |-> IF c \in DOMAIN row THEN row[c] ELSE old[c]]

\* INSERT INTO table ... ON CONFLICT ... DO UPDATE
Upsert(db, stmt) ==
  LET tbl == db[stmt.table]
      k == stmt.row[stmt.key]
      new == [x \in DOMAIN tbl \cup {k} |->
                IF x # k THEN tbl[x]
                ELSE IF k \in DOMAIN tbl THEN OnConflict(tbl[k], stmt.row)
                ELSE stmt.row]
  IN [db EXCEPT ![stmt.table] = new]

\* conn.commit(): the transaction's writes become the store
CommitTxn(committed, pending) == pending

\* A close that commits what the transaction wrote
CloseCommitted(committed, pending) == pending

\* connection.close() with a transaction open: its writes are discarded
CloseUncommitted(committed, pending) == committed

(***************************************************************************)
(* Inputs                                                                  *)
(***************************************************************************)
BaseRow ==
  [SaleID |-> <<"1">>, ProductID |-> <<"1">>, RetailerID |-> <<"1">>,
   ProductName |-> <<"A">>, Brand |-> <<"b">>, Category |-> <<"c">>,
   RetailerName |-> <<"R">>, Channel |-> <<"w">>, Location |-> <<"L">>,
   Date |-> <<"2", "0", "2", "4", "-", "0", "3", "-", "1", "5">>,
   Quantity |-> <<"7">>, Price |-> <<"5">>]

Without(row, key) == [k \in DOMAIN row \ {key} |-> row[k]]

\* Rows for the cleaner: identifiers that are missing, empty, signed,
\* fractional, alphanumeric, padded or a non-decimal digit; fields that
\* differ from BaseRow only in what cleaning removes; a price that float()
\* rejects.
CleanRows ==
  {BaseRow, Without(BaseRow, "ProductID")}
  \cup {[BaseRow EXCEPT !["SaleID"] = x] : x \in {<<>>, <<"1", ".", "5">>, <<"2">>}}
  \cup {[BaseRow EXCEPT !["ProductID"] = x] : x \in {<<"1", "2", "a">>, <<"sup2">>}}
  \cup {[BaseRow EXCEPT !["RetailerID"] = x] : x \in {<<"-", "3">>, <<" ", "1">>}}
  \cup {[BaseRow EXCEPT !["ProductName"] = <<" ", "A">>],
        [BaseRow EXCEPT !["Location"] = <<>>],
        [BaseRow EXCEPT !["Quantity"] = <<"-", "5">>],
        [BaseRow EXCEPT !["Quantity"] = <<"x">>],
        [BaseRow EXCEPT !["Date"] = <<"2", "0", "2", "4", "/", "0", "3", "/", "1", "5">>]}
  \cup {[BaseRow EXCEPT !["Price"] = x] :
          x \in {<<"$", "5">>, <<"5", ".", "0">>, <<"1", ".", "2", ".", "3">>}}

IdFieldChoices == {DefaultIdFields, <<"SaleID">>}

\* Dates for the transformer: well formed, written with '/', in ISO week 1
\* of the next year, in ISO week 53 of the previous year, with one-digit
\* month and day, not a calendar date, and without '-'.
PipeDates ==
  {<<"2", "0", "2", "4", "/", "0", "3", "/", "1", "5">>,
   <<"2", "0", "2", "4", "-", "1", "2", "-", "3", "0">>,
   <<"2", "0", "2", "1", "-", "0", "1", "-", "0", "3">>,
   <<"2", "0", "2", "4", "-", "3", "-", "5">>,
   <<"2", "0", "2", "4", "-", "0", "2", "-", "3", "0">>,
   <<"1", "5", ".", "0", "3", ".", "2", "0", "2", "4">>,
   <<"2", "0", "2", "4", "0", "3", "1", "5">>}

\* Rows for the transformer: two sales and two products whose names are
\* equal, different or empty; retailers likewise; the dates above.
PipeRows ==
  {[BaseRow EXCEPT !["SaleID"] = s, !["ProductID"] = p[1], !["ProductName"] = p[2]] :
     s \in {<<"1">>, <<"2">>},
     p \in {<<<<"1">>, <<"A">>>>, <<<<"1">>, <<"B">>>>, <<<<"1">>, <<>>>>, <<<<"2">>, <<"A">>>>}}
  \cup {[BaseRow EXCEPT !["SaleID"] = <<"2">>, !["RetailerName"] = x] : x \in {<<>>, <<"S">>}}
  \cup {[BaseRow EXCEPT !["Date"] = x] : x \in PipeDates}

\* Rows for the publisher: a sale, the same sale with another quantity,
\* another sale of the same product under another name, another product.
PublishRows ==
  {BaseRow,
   [BaseRow EXCEPT !["Quantity"] = <<"3">>],
   [BaseRow EXCEPT !["SaleID"] = <<"2">>, !["ProductName"] = <<"B">>],
   [BaseRow EXCEPT !["SaleID"] = <<"2">>, !["ProductID"] = <<"2">>, !["Brand"] = <<>>]}

\* The store a run can start from: empty, or holding rows of an earlier
\* load under keys the run writes and under keys it does not.
OldStore ==
  [product_dim |->
     (PyInt(1) :> [ProductID |-> PyInt(1), Name |-> PyStr(<<"O">>),
                   Brand |-> PyNone, Category |-> PyStr(<<"c">>)])
     @@ (PyInt(9) :> [ProductID |-> PyInt(9), Name |-> PyStr(<<"Z">>),
                      Brand |-> PyNone, Category |-> PyNone]),
   retailer_dim |-> <<>>,
   date_dim |-> <<>>,
   sales_fact |->
     (PyInt(1) :> [SaleID |-> PyInt(1), ProductID |-> PyInt(9), RetailerID |-> PyInt(1),
                   Date |-> PyStr(<<"2", "0", "2", "4", "-", "0", "3", "-", "1", "5">>),
                   Quantity |-> PyInt(1), Price |-> PyFloat(0, 0)])]

InitStores == {EmptyStore, OldStore}

RowSeqs(rows, max) == UNION {[1..n -> rows] : n \in 0..max}

RECURSIVE CharSeqs(_, _)
CharSeqs(chars, n) ==
  IF n = 0 THEN {<<>>}
  ELSE LET shorter == CharSeqs(chars, n - 1)
       IN shorter \cup {Append(s, c) : s \in shorter, c \in chars}

PriceChars == {"1", "5", "0", ".", "$", ",", "-", "a", "sup2"}

(***************************************************************************)
(* The pipeline                                                            *)
(***************************************************************************)
InitWith(start, inputs, idChoices, stores, prices) ==
  /\ pc = start
  /\ data \in inputs
  /\ id_fields \in idChoices
  /\ store \in stores
  /\ price_in \in prices
  /\ price_out = PyNone
  /\ cleaned_data = <<>>
  /\ final_cleaned_data = <<>>
  /\ validated_data = <<>>
  /\ log = <<>>
  /\ exc = ""
  /\ product_dim = <<>>
  /\ retailer_dim = <<>>
  /\ date_dim = <<>>
  /\ sales_fact = <<>>
  /\ conn = "none"
  /\ txn = EmptyStore
  /\ executed = 0
  /\ store_before = store
  /\ store_after_first = EmptyStore
  /\ run = 1

runVars == <<data, id_fields, run, store_after_first>>
cleanVars == <<cleaned_data, final_cleaned_data>>
tableVars == <<product_dim, retailer_dim, date_dim, sales_fact>>
dbVars == <<conn, txn, executed, store, store_before>>
priceVars == <<price_in, price_out>>

CleanPrice ==
  /\ pc = "price"
  /\ price_out' = clean_price(price_in)
  /\ pc' = "price_done"
  /\ UNCHANGED <<runVars, cleanVars, validated_data, log, exc, tableVars, dbVars, price_in>>

CleanData ==
  /\ pc = "clean"
  /\ \E r \in {clean_data(data, id_fields)} :
        /\ cleaned_data' = r.cleaned_data
        /\ final_cleaned_data' = r.final
        /\ log' = log \o r.log
        /\ exc' = IF r.raised THEN "ValueError" ELSE exc
        /\ pc' = IF r.raised THEN "failed" ELSE "validate"
  /\ UNCHANGED <<runVars, validated_data, tableVars, dbVars, priceVars>>

ValidateData ==
  /\ pc = "validate"
  /\ validated_data' = validate_data(final_cleaned_data)
  /\ log' = log \o ValidateExclusions(final_cleaned_data)
  /\ pc' = "transform"
  /\ UNCHANGED <<runVars, cleanVars, exc, tableVars, dbVars, priceVars>>

TransformData ==
  /\ pc = "transform"
  /\ \E r \in {transform_data(validated_data)} :
        /\ product_dim' = r.product_dim
        /\ retailer_dim' = r.retailer_dim
        /\ date_dim' = r.date_dim
        /\ sales_fact' = r.sales_fact
        /\ exc' = IF r.raised # "" THEN r.raised ELSE exc
        /\ pc' = IF r.raised # "" THEN "failed" ELSE "publish"
  /\ UNCHANGED <<runVars, cleanVars, validated_data, log, dbVars, priceVars>>

batch == Statements(product_dim, retailer_dim, date_dim, sales_fact)

\* psycopg2.connect returns: a connection, and a transaction that starts
\* from the store.
Connect ==
  /\ pc = "publish"
  /\ conn' = "open"
  /\ txn' = store
  /\ executed' = 0
  /\ store_before' = store
  /\ pc' = "upserting"
  /\ UNCHANGED <<runVars, cleanVars, validated_data, log, exc, tableVars, store, priceVars>>

\* psycopg2.connect raises: there is no connection to close.
ConnectFail ==
  /\ pc = "publish"
  /\ store_before' = store
  /\ exc' = "OperationalError"
  /\ pc' = "failed"
  /\ UNCHANGED <<runVars, cleanVars, validated_data, log, tableVars,
                 conn, txn, executed, store, priceVars>>

\* cur.execute of the next statement returns.
Execute ==
  /\ pc = "upserting"
  /\ executed < Len(batch)
  /\ txn' = Upsert(txn, batch[executed + 1])
  /\ executed' = executed + 1
  /\ UNCHANGED <<pc, runVars, cleanVars, validated_data, log, exc, tableVars,
                 conn, store, store_before, priceVars>>

\* cur.execute of the next statement raises: the exception leaves both
\* with blocks and the finally clause closes the connection.
ExecuteFail ==
  /\ pc = "upserting"
  /\ executed < Len(batch)
  /\ store' = CloseUncommitted(store, txn)
  /\ txn' = EmptyStore
  /\ conn' = "closed"
  /\ exc' = "DatabaseError"
  /\ pc' = "failed"
  /\ UNCHANGED <<runVars, cleanVars, validated_data, log, tableVars,
                 executed, store_before, priceVars>>

\* conn.commit() after the last statement, then the connection is closed.
Commit ==
  /\ pc = "upserting"
  /\ executed = Len(batch)
  /\ store' = CommitTxn(store, txn)
  /\ txn' = EmptyStore
  /\ conn' = "closed"
  /\ pc' = "published"
  /\ UNCHANGED <<runVars, cleanVars, validated_data, log, exc, tableVars,
                 executed, store_before, priceVars>>

\* The pipeline is run again on the same input against the store the
\* first run left.
Rerun ==
  /\ pc = "published"
  /\ run = 1
  /\ run' = 2
  /\ store_after_first' = store
  /\ pc' = "clean"
  /\ cleaned_data' = <<>>
  /\ final_cleaned_data' = <<>>
  /\ validated_data' = <<>>
  /\ product_dim' = <<>>
  /\ retailer_dim' = <<>>
  /\ date_dim' = <<>>
  /\ sales_fact' = <<>>
  /\ conn' = "none"
  /\ executed' = 0
  /\ UNCHANGED <<data, id_fields, log, exc, txn, store, store_before, priceVars>>

\* clean_price applied to every short string over PriceChars
InitPrice == InitWith("price", {<<>>}, {DefaultIdFields}, {EmptyStore}, CharSeqs(PriceChars, MaxLen))
NextPrice == CleanPrice
SpecPrice == InitPrice /\ [][NextPrice]_vars

\* clean_data then validate_data, over CleanRows and both id_fields
InitClean == InitWith("clean", RowSeqs(CleanRows, MaxCleanRows), IdFieldChoices, {EmptyStore}, {<<>>})
NextClean == CleanData \/ ValidateData
SpecClean == InitClean /\ [][NextClean]_vars

\* clean_data, validate_data, transform_data over PipeRows
InitPipe == InitWith("clean", RowSeqs(PipeRows, MaxRows), {DefaultIdFields}, {EmptyStore}, {<<>>})
NextPipe == CleanData \/ ValidateData \/ TransformData
SpecPipe == InitPipe /\ [][NextPipe]_vars

\* The whole pipeline, run once or twice, over PublishRows and InitStores
Init == InitWith("clean", RowSeqs(PublishRows, MaxRows), {DefaultIdFields}, InitStores, {<<>>})
Next ==
  \/ CleanData
  \/ ValidateData
  \/ TransformData
  \/ Connect
  \/ ConnectFail
  \/ Execute
  \/ ExecuteFail
  \/ Commit
  \/ Rerun
Spec == Init /\ [][Next]_vars

(***************************************************************************)
(* Properties: clean_price                                                 *)
(***************************************************************************)
\* What is left of a price once every character that is neither a decimal
\* digit nor '.' is removed, and whether that is a number.
PriceRemainder(value) == SelectSeq(value, LAMBDA c : c \in DecimalChars \cup {"."})

IsNumber(s) ==
  /\ \E i \in 1..Len(s) : s[i] \in DecimalChars
  /\ \A i \in 1..Len(s) : s[i] \in DecimalChars \cup {"."}
  /\ Cardinality({i \in 1..Len(s) : s[i] = "."}) <= 1

\* C5: for every raw Price string, clean_price returns and does not raise;
\* what it returns is a non-negative float, and it is 0.0 whenever the
\* string stripped of its non-numeric characters is empty or is not a
\* number (two decimal points, only '.').
C5_CleanPriceNeverRaises ==
  pc = "price_done" =>
    /\ ~IsRaised(price_out)
    /\ TypeOf(price_out) = "float"
    /\ price_out.float[1] >= 0
    /\ ~IsNumber(PriceRemainder(price_in)) => price_out = PyFloat(0, 0)

(***************************************************************************)
(* Properties: clean_data                                                  *)
(***************************************************************************)
\* clean_data has returned (pc = "failed" and exc set: it raised)
CleanReturned == pc \in {"validate", "transform"}
CleanLeft == pc \in {"validate", "transform", "failed"}

\* A field of a raw row that is missing, empty or not made of decimal digits
BadIdentifier(row, field) == field \notin DOMAIN row \/ ~IsDecimalString(row[field])

PassesGate(row) == \A i \in 1..Len(id_fields) : ~BadIdentifier(row, id_fields[i])

Occurs(x, seq) == \E i \in 1..Len(seq) : seq[i] = x

\* C3: clean_data drops a raw row iff one of id_fields is missing from it,
\* empty or not made of decimal digits only; every row that passes appears,
\* cleaned, in the output; the rows after a dropped row are still examined.
C3_IdentifierGate ==
  /\ CleanLeft => cleaned_data = SelectSeq(data, PassesGate)
  /\ CleanReturned =>
       \A i \in 1..Len(data) :
         PassesGate(data[i]) => Occurs(cleaned_clean_value_row(data[i]), final_cleaned_data)

NonNegativeInt(x) == TypeOf(x) = "int" /\ x.int >= 0

\* C4: every record clean_data returns holds SaleID, ProductID, RetailerID
\* and Quantity as non-negative integers, not as strings.
C4_IdentifiersAreIntegers ==
  (CleanReturned /\ id_fields = DefaultIdFields) =>
    \A i \in 1..Len(final_cleaned_data) :
      \A key \in {"SaleID", "ProductID", "RetailerID", "Quantity"} :
        NonNegativeInt(final_cleaned_data[i][key])

\* The rows that passed the gate, cleaned, and the places of those that are
\* the first with their field values.
CleanedRows == [i \in 1..Len(cleaned_data) |-> cleaned_clean_value_row(cleaned_data[i])]

FirstOccurrences ==
  {i \in 1..Len(cleaned_data) : \A j \in 1..(i - 1) : CleanedRows[j] # CleanedRows[i]}

\* C6: the output of clean_data holds no two records with equal field
\* values, and it is the first occurrences, in input order, of the cleaned
\* rows that passed the gate.
C6_Deduplicated ==
  CleanReturned =>
    /\ \A i, j \in 1..Len(final_cleaned_data) :
         final_cleaned_data[i] = final_cleaned_data[j] => i = j
    /\ Len(final_cleaned_data) = Cardinality(FirstOccurrences)
    /\ \A k \in 1..Len(final_cleaned_data) :
         \E i \in FirstOccurrences :
           /\ final_cleaned_data[k] = CleanedRows[i]
           /\ Cardinality({j \in FirstOccurrences : j < i}) = k - 1

\* Two raw rows that differ, only in what cleaning removes, left one record.
C6_Witness ==
  /\ CleanReturned
  /\ Len(cleaned_data) = 2
  /\ cleaned_data[1] # cleaned_data[2]
  /\ Len(final_cleaned_data) = 1

(***************************************************************************)
(* Properties: transform_data                                              *)
(***************************************************************************)
\* transform_data has returned its four tables
Transformed == pc = "publish"
\* transform_data has raised
TransformRaised == pc = "failed" /\ exc \in {"ValueError", "IndexError"}

Column(dim, key) == {dim[i][key] : i \in 1..Len(dim)}

UniqueKey(dim, key) == \A i, j \in 1..Len(dim) : dim[i][key] = dim[j][key] => i = j

\* C1: no two records of a table returned by transform_data share the
\* table's key, and sales_fact holds one record per distinct SaleID among
\* the rows that reached the transformer.
C1_UniqueKeys ==
  Transformed =>
    /\ UniqueKey(product_dim, "ProductID")
    /\ UniqueKey(retailer_dim, "RetailerID")
    /\ UniqueKey(date_dim, "Date")
    /\ UniqueKey(sales_fact, "SaleID")
    /\ Column(sales_fact, "SaleID")
         = {PyIntOf(validated_data[i]["SaleID"]) : i \in 1..Len(validated_data)}

\* The first row that reached the transformer with this id and a name
NamedRows(idKey, nameKey, id) ==
  {i \in 1..Len(validated_data) :
     PyIntOf(validated_data[i][idKey]) = id /\ Truthy(validated_data[i][nameKey])}

FirstNamed(idKey, nameKey, id) ==
  validated_data[CHOOSE i \in NamedRows(idKey, nameKey, id) :
                   \A j \in NamedRows(idKey, nameKey, id) : i <= j]

\* C2: every ProductDimRecord (RetailerDimRecord) carries the attributes of
\* the first row with its ProductID (RetailerID) and a non-empty name; none
\* carries a later row's.
C2_FirstWins ==
  Transformed =>
    /\ \A i \in 1..Len(product_dim) :
         LET first == FirstNamed("ProductID", "ProductName", product_dim[i].ProductID)
         IN /\ product_dim[i].Name = first["ProductName"]
            /\ product_dim[i].Brand = OrNone(first["Brand"])
            /\ product_dim[i].Category = OrNone(first["Category"])
    /\ \A i \in 1..Len(retailer_dim) :
         LET first == FirstNamed("RetailerID", "RetailerName", retailer_dim[i].RetailerID)
         IN /\ retailer_dim[i].Name = first["RetailerName"]
            /\ retailer_dim[i].Channel = OrNone(first["Channel"])
            /\ retailer_dim[i].Location = OrNone(first["Location"])

\* C9 as claimed: every SalesFactRecord's ProductID, RetailerID and Date is
\* the key of a record of product_dim, retailer_dim and date_dim, also for
\* rows whose ProductName or RetailerName is empty.
C9_ReferentialConsistency ==
  Transformed =>
    \A i \in 1..Len(sales_fact) :
      /\ sales_fact[i].ProductID \in Column(product_dim, "ProductID")
      /\ sales_fact[i].RetailerID \in Column(retailer_dim, "RetailerID")
      /\ sales_fact[i].Date \in Column(date_dim, "Date")

\* C9 as amended: every SalesFactRecord's Date is the key of a record of
\* date_dim; its ProductID (RetailerID) is the key of a record of
\* product_dim (retailer_dim) if some row that reached the transformer
\* with that ProductID (RetailerID) has a non-empty ProductName
\* (RetailerName).
C9_ReferentialConsistencyNamed ==
  Transformed =>
    \A i \in 1..Len(sales_fact) :
      /\ sales_fact[i].Date \in Column(date_dim, "Date")
      /\ NamedRows("ProductID", "ProductName", sales_fact[i].ProductID) # {}
           => sales_fact[i].ProductID \in Column(product_dim, "ProductID")
      /\ NamedRows("RetailerID", "RetailerName", sales_fact[i].RetailerID) # {}
           => sales_fact[i].RetailerID \in Column(retailer_dim, "RetailerID")

\* A sale of a product no row names is returned next to a sale of a
\* product with a record, and each sale's date has its record.
C9_Witness ==
  /\ Transformed
  /\ Len(sales_fact) = 2
  /\ sales_fact[1].ProductID \notin Column(product_dim, "ProductID")
  /\ sales_fact[2].ProductID \in Column(product_dim, "ProductID")
  /\ \A i \in 1..2 : sales_fact[i].Date \in Column(date_dim, "Date")

\* A date written YYYY-MM-DD: four digits, two digits, two digits
IsYMD(s) ==
  /\ Len(s) = 10
  /\ \A i \in {1, 2, 3, 4, 6, 7, 9, 10} : s[i] \in DecimalChars
  /\ s[5] = "-"
  /\ s[8] = "-"

NoTables ==
  product_dim = <<>> /\ retailer_dim = <<>> /\ date_dim = <<>> /\ sales_fact = <<>>

TransformLeft == Transformed \/ TransformRaised

RECURSIVE UpsertAll(_, _)
UpsertAll(db, stmts) ==
  IF stmts = <<>> THEN db
  ELSE Bind(Upsert(db, Head(stmts)), LAMBDA next : UpsertAll(next, Tail(stmts)))

\* C7: the store changes only at the commit, by the upserts of all four
\* tables at once; when an upsert fails the ones after it are not executed,
\* the store is as it was before the call, and the connection is closed.
C7_AtomicPublish ==
  /\ pc = "upserting" => store = store_before
  /\ (pc = "failed" /\ exc = "DatabaseError") =>
       /\ store = store_before
       /\ conn = "closed"
       /\ executed < Len(batch)
  /\ pc = "published" =>
       /\ store = UpsertAll(store_before, batch)
       /\ conn = "closed"

\* An upsert failed after others had written to the transaction.
C7_Witness ==
  /\ pc = "failed"
  /\ exc = "DatabaseError"
  /\ executed >= 1
  /\ Upsert(store_before, batch[1]) # store_before
  /\ store = store_before
  /\ conn = "closed"

\* C8: the pipeline run a second time on the same input leaves the store
\* as the first run left it.
C8_Idempotent == (pc = "published" /\ run = 2) => store = store_after_first

\* Both runs published, over a store that held a row under a key the run
\* writes and a row under a key it does not.
C8_Witness ==
  /\ pc = "published"
  /\ run = 2
  /\ Len(batch) >= 4
  /\ PyInt(9) \in DOMAIN store.product_dim
  /\ store.product_dim[PyInt(1)].Name # PyStr(<<"O">>)
  /\ store = store_after_first

====
